---- MODULE Spec2Model ----
(***************************************************************************)
(* wmx2obj: conversion of Final Fantasy 8 world map segments to Wavefront  *)
(* OBJ.  The module models src/wmx2obj.c: the command line (main,          *)
(* parse_segment_index, parse_uint), the driver (convert_to_obj), the      *)
(* segment reader (convert_segment), the block decoder (convert_block) and *)
(* the record converters (convert_polygon, convert_vertex,                 *)
(* limit_within_bounds).                                                   *)
(*                                                                         *)
(* Integers of the program that do not fit TLC's integers (unsigned long,  *)
(* unsigned int near 2^32) are kept as little-endian sequences of 16-bit   *)
(* limbs, and the C operators on them are computed limb by limb.           *)
(***************************************************************************)
EXTENDS Integers, Sequences, FiniteSets, TLC

(***************************************************************************)
(* Program constants (src/wmx2obj.c:12-27).                                *)
(***************************************************************************)
SEGMENT_SIZE == 36864
SEGMENT_MIN == 0
SEGMENT_MAX == 834
SEGMENTS_PER_ROW == 32
SEGMENT_BOUNDS == 8192
BLOCKS_PER_SEGMENT == 16
GROUP_ID_SIZE == 4
BLOCK_OFFSET_SIZE == 4
BLOCK_SIZE == SEGMENT_SIZE \div BLOCKS_PER_SEGMENT
BLOCK_OFFSET_MAX == SEGMENT_SIZE - BLOCK_SIZE
BLOCK_HEADER_SIZE == 4
BLOCKS_PER_ROW == 4
BLOCK_BOUNDS == SEGMENT_BOUNDS \div BLOCKS_PER_ROW
POLYGON_SIZE == 16
VERTEX_SIZE == 8
VERTICES_PER_POLYGON == 3
EXIT_SUCCESS == 0
EXIT_FAILURE == 1

(***************************************************************************)
(* Bounds of the model.                                                    *)
(***************************************************************************)
\* Whole segments the input file holds at and after the start segment.
MaxSegs == 1
\* Longest requested range, end - start, of the driver specification.
MaxSpan == 3
\* Lines the output accepts before a write fails, when one fails at all.
MaxLines == 2

(***************************************************************************)
(* Machine integers.                                                       *)
(***************************************************************************)
Byte == 0..255
LimbBase == 2^16
\* unsigned long is 64 bits (LP64): four limbs; unsigned int is two limbs.
ULongLimbs == 1..4

Max(a, b) == IF a > b THEN a ELSE b

\* An unsigned long from a small non-negative integer.
ULong(n) == <<n % LimbBase, n \div LimbBase, 0, 0>>

ULONG_MAX == <<LimbBase - 1, LimbBase - 1, LimbBase - 1, LimbBase - 1>>

\* Limb l of the two's complement negation of w, as unsigned arithmetic
\* computes -w: ~w + 1, the carry running up from limb 1.
RECURSIVE NegCarry(_, _)
NegCarry(w, l) ==
  IF l = 0 THEN 1
  ELSE IF (LimbBase - 1 - w[l]) + NegCarry(w, l - 1) >= LimbBase THEN 1 ELSE 0

NegULong(w) ==
  [l \in ULongLimbs |-> ((LimbBase - 1 - w[l]) + NegCarry(w, l - 1)) % LimbBase]

\* (unsigned int)w: the low 32 bits.
ToUInt(w) == <<w[1], w[2]>>

\* Comparison of an unsigned int with a small bound b < 65536.
UIntLess(u, b) == u[2] = 0 /\ u[1] < b
UIntGreater(u, b) == u[2] > 0 \/ u[1] > b

(***************************************************************************)
(* Command line arguments.  An argument string is kept as what strtoul     *)
(* makes of it: whether it was given at all, whether it starts (after      *)
(* white space and a sign) with a digit, its sign, and the magnitude of    *)
(* its digit string as five limbs; limb 5 is non-zero exactly when the     *)
(* magnitude exceeds ULONG_MAX.                                            *)
(***************************************************************************)
Arg(given, digits, neg, mag) ==
  [given |-> given, digits |-> digits, neg |-> neg, mag |-> mag]

NoArg == Arg(FALSE, FALSE, FALSE, <<0, 0, 0, 0, 0>>)
\* A string without a leading number, such as "abc" or "".
NotANumber == Arg(TRUE, FALSE, FALSE, <<0, 0, 0, 0, 0>>)
\* The decimal string of a small non-negative integer.
Numeral(n) == Arg(TRUE, TRUE, FALSE, <<n % LimbBase, n \div LimbBase, 0, 0, 0>>)
\* "-n" for a small n.
MinusNumeral(n) == Arg(TRUE, TRUE, TRUE, <<n % LimbBase, n \div LimbBase, 0, 0, 0>>)
\* The decimal string of 2^32 + n: "4294967296" for n = 0.
Numeral2p32Plus(n) == Arg(TRUE, TRUE, FALSE, <<n, 0, 1, 0, 0>>)
\* "-m" with m = 2^32 - n: "-4294967295" for n = 1.
MinusNumeral2p32Minus(n) ==
  Arg(TRUE, TRUE, TRUE, <<LimbBase - n, LimbBase - 1, 0, 0, 0>>)
\* The decimal string of 2^64 + n, which overflows unsigned long.
Numeral2p64Plus(n) == Arg(TRUE, TRUE, FALSE, <<n, 0, 0, 0, 1>>)

\* strtoul(str, &end_ptr, 10): the value returned, whether errno is set to
\* ERANGE, and whether end_ptr = str (nothing was converted).
Strtoul(a) ==
  IF ~a.digits THEN [val |-> ULong(0), erange |-> FALSE, none |-> TRUE]
  ELSE IF a.mag[5] # 0 THEN [val |-> ULONG_MAX, erange |-> TRUE, none |-> FALSE]
  ELSE LET m == <<a.mag[1], a.mag[2], a.mag[3], a.mag[4]>>
       IN  [val |-> IF a.neg THEN NegULong(m) ELSE m,
            erange |-> FALSE, none |-> FALSE]

\* parse_uint: the value returned and errno on return.
parse_uint(str, min, max) ==
  LET r == Strtoul(str)
      ret == ToUInt(r.val)
  IN  IF r.erange THEN [ret |-> 0, errno |-> "ERANGE"]
      ELSE IF r.none THEN [ret |-> 0, errno |-> "EINVAL"]
      ELSE IF UIntLess(ret, min) \/ UIntGreater(ret, max)
           THEN [ret |-> 0, errno |-> "ERANGE"]
      ELSE [ret |-> ret[1], errno |-> "0"]

\* parse_segment_index: parse_uint, and die(fail_msg) when errno is set.
parse_segment_index(str, min, max) ==
  LET r == parse_uint(str, min, max)
  IN  [ret |-> r.ret, died |-> r.errno # "0"]

\* main's argument handling (argc > 3, argc > 4): the range, or the
\* message main dies with.
ParseRange(a3, a4) ==
  LET s == IF a3.given THEN parse_segment_index(a3, SEGMENT_MIN, SEGMENT_MAX)
           ELSE [ret |-> SEGMENT_MIN, died |-> FALSE]
      e == IF a4.given THEN parse_segment_index(a4, s.ret, SEGMENT_MAX)
           ELSE [ret |-> SEGMENT_MAX, died |-> FALSE]
  IN  IF s.died THEN [ok |-> FALSE, start |-> 0, end |-> 0, msg |-> "Bad start segment"]
      ELSE IF e.died THEN [ok |-> FALSE, start |-> s.ret, end |-> 0, msg |-> "Bad end segment"]
      ELSE [ok |-> TRUE, start |-> s.ret, end |-> e.ret, msg |-> ""]

(***************************************************************************)
(* Input segments.  A segment is SEGMENT_SIZE bytes: a 4-byte group id,    *)
(* the table of 16 block offsets, then the block data.  The segments the   *)
(* model reads are drawn from a family: a segment is named by its offset   *)
(* table, its block headers and the pattern of its record bytes, and       *)
(* SegByte gives the byte at every address of its buffer.  The data of     *)
(* block slot s starts at SlotOffset(s); the last slot starts at           *)
(* BLOCK_OFFSET_MAX, the largest offset convert_block accepts.             *)
(***************************************************************************)
TableEnd == GROUP_ID_SIZE + BLOCKS_PER_SEGMENT * BLOCK_OFFSET_SIZE
SlotStride == BLOCK_SIZE - 5
SlotOffset(s) == BLOCK_OFFSET_MAX - (BLOCKS_PER_SEGMENT - 1 - s) * SlotStride

\* The four bytes of n < 2^31, little-endian.
LE32(n) ==
  <<n % 256, (n \div 256) % 256, (n \div 65536) % 256, (n \div 16777216) % 256>>

\* The offset table entry of block pos.
\*   "canon": every block at its own slot;
\*   "last":  every entry names the last slot, at BLOCK_OFFSET_MAX;
\*   "over":  entry 0 is BLOCK_OFFSET_MAX + 1;
\*   "high":  entry 6 has its top bit set (0x80000000).
TableEntry(tbl, pos) ==
  CASE tbl = "last" -> LE32(BLOCK_OFFSET_MAX)
    [] tbl = "over" /\ pos = 0 -> LE32(BLOCK_OFFSET_MAX + 1)
    [] tbl = "high" /\ pos = 6 -> <<0, 0, 0, 128>>
    [] OTHER -> LE32(SlotOffset(pos))

\* The header (num_polys, num_verts) stored in slot s.
\*   "all":  every slot holds the segment's header;
\*   "odd":  the odd slots hold it, the even slots are empty blocks;
\*   "tail": the last slot holds it, the others are empty blocks.
SlotHeader(seg, s) ==
  IF \/ seg.shape = "all"
     \/ seg.shape = "odd" /\ s % 2 = 1
     \/ seg.shape = "tail" /\ s = BLOCKS_PER_SEGMENT - 1
  THEN <<seg.np, seg.nv>>
  ELSE <<0, 0>>

\* Local vertex index byte b (0..2) of triangle record q.
\*   "seq":  triangle q names vertices 3q, 3q+1, 3q+2;
\*   "fan":  every triangle names vertex 0 twice and vertex 1;
\*   "desc": the indices fall from record to record.
IndexByte(pat, q, b) ==
  CASE pat = "seq" -> (VERTICES_PER_POLYGON * q + b) % 256
    [] pat = "fan" -> b \div 2
    [] OTHER -> (250 - VERTICES_PER_POLYGON * q - b) % 256

\* Raw 16-bit coordinate c (0..2) of vertex record m.
RawCoords == <<0, 1000, BLOCK_BOUNDS, BLOCK_BOUNDS + 1, 65535, 63488, 32768, 300>>
RawCoord(pat, m, c) ==
  IF pat = "seq" THEN RawCoords[((m + 3 * c) % Len(RawCoords)) + 1]
  ELSE RawCoords[((5 * m + c + 3) % Len(RawCoords)) + 1]

Patterns == {"seq", "fan", "desc"}

\* The byte at offset r of a slot's record area, whose first np records are
\* triangles and whose other records are vertices.
RecordByte(pat, np, r) ==
  IF r < np * POLYGON_SIZE
  THEN IF r % POLYGON_SIZE < VERTICES_PER_POLYGON
       THEN IndexByte(pat, r \div POLYGON_SIZE, r % POLYGON_SIZE)
       ELSE 0
  ELSE LET v == r - np * POLYGON_SIZE
           c == v % VERTEX_SIZE
           raw == RawCoord(pat, v \div VERTEX_SIZE, c \div 2)
       IN  IF c >= 6 THEN 0
           ELSE IF c % 2 = 0 THEN raw % 256 ELSE raw \div 256

\* buf[a], for 0 <= a < SEGMENT_SIZE.
SegByte(seg, a) ==
  IF a < GROUP_ID_SIZE THEN 0
  ELSE IF a < TableEnd
  THEN TableEntry(seg.tbl, (a - GROUP_ID_SIZE) \div BLOCK_OFFSET_SIZE)
                 [((a - GROUP_ID_SIZE) % BLOCK_OFFSET_SIZE) + 1]
  ELSE IF a < SlotOffset(0) THEN 0
  ELSE LET t == (a - SlotOffset(0)) \div SlotStride
           s == IF t < BLOCKS_PER_SEGMENT THEN t ELSE BLOCKS_PER_SEGMENT - 1
           rel == a - SlotOffset(s)
           h == SlotHeader(seg, s)
       IN  IF rel = 0 THEN h[1]
           ELSE IF rel = 1 THEN h[2]
           ELSE IF rel < BLOCK_HEADER_SIZE THEN 0
           ELSE RecordByte(seg.pat, h[1], rel - BLOCK_HEADER_SIZE)

Segment(tbl, shape, np, nv, pat) ==
  [tbl |-> tbl, shape |-> shape, np |-> np, nv |-> nv, pat |-> pat]

\* The (num_polys, num_verts) headers of the short blocks.
Headers == {<<0, 0>>, <<1, 3>>, <<2, 3>>, <<2, 6>>, <<1, 0>>}

\* The segments an input file may hold: short blocks in every layout, and a
\* segment whose last block states the largest triangle count of a byte.
Segments ==
  {Segment("canon", "all", h[1], h[2], p) : h \in Headers, p \in Patterns}
  \cup {Segment("canon", "odd", h[1], h[2], "seq") : h \in {<<1, 3>>, <<2, 3>>}}
  \cup {Segment("last", "all", h[1], h[2], "fan") : h \in {<<1, 3>>, <<2, 6>>}}
  \cup {Segment(t, "all", 1, 3, p) : t \in {"over", "high"}, p \in {"seq", "desc"}}
  \cup {Segment("canon", "tail", 255, 1, "desc")}

\* The buffer before the first fread: malloc'ed and never read.
NoSegment == Segment("none", "none", 0, 0, "none")

(***************************************************************************)
(* The record converters.                                                  *)
(***************************************************************************)
\* unsigned int arithmetic on two limbs: ~u, u + 1, u & 0xFFFF.
UInt(n) == <<n % LimbBase, n \div LimbBase>>
NotUInt(u) == <<LimbBase - 1 - u[1], LimbBase - 1 - u[2]>>
IncUInt(u) ==
  IF u[1] = LimbBase - 1 THEN <<0, (u[2] + 1) % LimbBase>> ELSE <<u[1] + 1, u[2]>>
AndFFFF(u) == u[1]

\* Seeded fault: the bound itself is folded (val < BLOCK_BOUNDS).
limit_below_bounds(val) ==
  IF val < BLOCK_BOUNDS THEN val ELSE AndFFFF(IncUInt(NotUInt(UInt(val))))

\* limit_within_bounds (src/wmx2obj.c:81-85).
limit_within_bounds(val) ==
  IF val <= BLOCK_BOUNDS THEN val ELSE AndFFFF(IncUInt(NotUInt(UInt(val))))

\* Seeded fault: the two bytes are assembled big-endian.
BE16(b0, b1) == b0 * 256 + b1

\* buf[0] | (buf[1] << 8): the bits of the two bytes do not overlap.
LE16(b0, b1) == b0 + b1 * 256

\* convert_vertex: the three coordinates of the v line, before the scale by
\* 0.001 (the line prints each as thousandths, "%.3Lf").
convert_vertex(x, z, b) ==
  LET bx == limit_within_bounds(LE16(b[1], b[2]))
      by == limit_within_bounds(LE16(b[3], b[4]))
      bz == limit_within_bounds(LE16(b[5], b[6]))
  IN  <<x + bx, by, z + bz>>

\* Seeded fault: vert_max takes every index, greater or not.
AssignMax(vmax, vert) == vert

\* Seeded fault: the loop of convert_polygon stops one index short.
convert_polygon_short(prev, vmax, b) ==
  LET v1 == prev + b[1]
      v2 == prev + b[2]
      v3 == prev + b[3]
  IN  [line |-> <<v1, v2, v3>>,
       vert_max |-> IF v2 > (IF v1 > vmax THEN v1 ELSE vmax) THEN v2
                    ELSE IF v1 > vmax THEN v1 ELSE vmax]

\* One turn of convert_polygon's loop: vert_max after index vert.
RaiseMax(vmax, vert) == IF vert > vmax THEN vert ELSE vmax

\* convert_polygon: the three indices of the f line and vert_max afterwards.
convert_polygon(prev, vmax, b) ==
  LET v1 == prev + b[1]
      v2 == prev + b[2]
      v3 == prev + b[3]
  IN  [line |-> <<v1, v2, v3>>,
       vert_max |-> RaiseMax(RaiseMax(RaiseMax(vmax, v1), v2), v3)]

\* convert_block's offset, from the four bytes of the table entry:
\* buf[0] | buf[1] << 8 | buf[2] << 16 | buf[3] << 24 is an int, negative
\* when buf[3] >= 128 (GCC and Clang wrap the shift), and its conversion to
\* unsigned long then exceeds every offset of the buffer.
BlockOffset(b) ==
  [huge |-> b[4] >= 128,
   val |-> b[1] + b[2] * 256 + b[3] * 65536 + (b[4] % 128) * 16777216]
OffsetTooLarge(o) == o.huge \/ o.val > BLOCK_OFFSET_MAX

\* Seeded fault: the column of a segment position is not wrapped at the
\* end of a row.
SegmentXUnwrapped(pos) == pos * SEGMENT_BOUNDS

\* World offset of a segment (convert_segment) and of a block in it
\* (convert_block), from the position each is given.
SegmentX(pos) == (pos % SEGMENTS_PER_ROW) * SEGMENT_BOUNDS
SegmentZ(pos) == (pos \div SEGMENTS_PER_ROW) * SEGMENT_BOUNDS
BlockX(x, pos) == x + (pos % BLOCKS_PER_ROW) * BLOCK_BOUNDS
BlockZ(z, pos) == z + (pos \div BLOCKS_PER_ROW) * BLOCK_BOUNDS

\* Seeded fault: the first position is the start column on every range.
FirstPosColumn(start, end) == start % SEGMENTS_PER_ROW

\* convert_to_obj's first segment position j (the model's origin).
FirstPos(start, end) ==
  IF start \div SEGMENTS_PER_ROW # end \div SEGMENTS_PER_ROW
  THEN start % SEGMENTS_PER_ROW ELSE 0

(***************************************************************************)
(* Reads of the segment buffer.  A read at or past SEGMENT_SIZE is outside *)
(* the malloc'ed buffer: it yields whatever the heap holds there, or the   *)
(* process is killed (see Crash).                                          *)
(***************************************************************************)
OobBytes == {0, 255}
ByteAt(seg, a) == IF a < SEGMENT_SIZE THEN {SegByte(seg, a)} ELSE OobBytes

Read3(seg, a) ==
  {<<b0, b1, b2>> : b0 \in ByteAt(seg, a), b1 \in ByteAt(seg, a + 1),
                    b2 \in ByteAt(seg, a + 2)}
Read6(seg, a) ==
  {t \o u : t \in Read3(seg, a), u \in Read3(seg, a + 3)}

(***************************************************************************)
(* State.                                                                  *)
(***************************************************************************)
VARIABLES
  pc,            \* position of the program
  argv3, argv4,  \* the optional arguments <start> and <end>
  env,           \* what fseek and malloc will answer: "ok", "seekfail", "nomem"
  fileLen,       \* length of the input file in bytes
  outCap,        \* lines the output accepts before ferror(out), -1: all
  start, end,    \* main's and convert_to_obj's range
  i, j,          \* convert_to_obj's loop counters
  res,           \* the result flag of the function that runs or just returned
  status,        \* exit status of the process, -1 while it runs
  errlog,        \* the lines written to stderr
  fpos,          \* position of the input stream in bytes
  freads,        \* calls of fread so far
  seg,           \* the contents of the segment buffer
  pos,           \* convert_segment's pos
  segX, segZ,    \* convert_segment's x and z
  blk,           \* convert_segment's block counter
  bufp,          \* convert_block's buf, as an index of the segment buffer
  blkX, blkZ,    \* convert_block's x and z
  num_polys, num_verts,
  k,             \* convert_block's record counter
  vert_max, prev_vert_max,
  fcount, vcount,  \* f lines and v lines written to the output
  lastF, lastV,    \* the last f line (indices) and v line (thousandths)
  rec,             \* the bytes the last record converter read from buf
  placed,          \* history: loop index i, file position and world offset of
                   \* each segment read
  rdmax,           \* highest buffer index read since the segment was read
  blocks,          \* calls of convert_block that returned 1
  hist             \* history of the current block: vert_max on entry, largest
                   \* local index byte read, triangle records converted

vars ==
  <<pc, argv3, argv4, env, fileLen, outCap, start, end, i, j, res, status, errlog,
    fpos, freads, seg, pos, segX, segZ, blk, bufp, blkX, blkZ, num_polys,
    num_verts, k, vert_max, prev_vert_max, fcount, vcount, lastF, lastV,
    rec, placed, rdmax, blocks, hist>>

mainVars == <<argv3, argv4, env, fileLen, outCap>>
driverVars == <<start, end, i, j>>
segVars == <<seg, pos, segX, segZ, blk>>
blockVars == <<bufp, blkX, blkZ, num_polys, num_verts, k>>
indexVars == <<vert_max, prev_vert_max>>
outVars == <<fcount, vcount, lastF, lastV, rec>>
counters == <<rdmax, blocks, hist>>

NoHist == [V |-> 0, maxIdx |-> 0, polys |-> 0]

\* Nothing has run yet: no range, no output, an empty stderr.
Fresh ==
  /\ start = 0 /\ end = 0 /\ i = 0 /\ j = 0
  /\ res = 1 /\ status = -1 /\ errlog = <<>>
  /\ fpos = 0 /\ freads = 0
  /\ seg = NoSegment /\ pos = 0 /\ segX = 0 /\ segZ = 0 /\ blk = 0
  /\ bufp = 0 /\ num_polys = 0 /\ num_verts = 0 /\ k = 0
  /\ vert_max = 0 /\ prev_vert_max = 0
  /\ fcount = 0 /\ vcount = 0 /\ lastF = <<0, 0, 0>> /\ lastV = <<0, 0, 0>>
  /\ placed = <<>>
  /\ rdmax = -1 /\ blocks = 0 /\ hist = NoHist

\* The state main starts in, for arguments a3, a4, a file of len bytes and
\* an output that accepts cap lines.
Boot(a3, a4, e, len, cap) ==
  /\ pc = "main"
  /\ argv3 = a3 /\ argv4 = a4 /\ env = e /\ fileLen = len /\ outCap = cap
  /\ blkX = 0 /\ blkZ = 0 /\ rec = <<0, 0, 0>>
  /\ Fresh

\* The start segment main will pass on (0 when it dies instead).
StartOf(a3, a4) == ParseRange(a3, a4).start

\* File lengths: n whole segments at and after the start segment, and
\* possibly a truncated one after them.
FileLens(first, n) ==
  {(first + m) * SEGMENT_SIZE + t : m \in 0..n, t \in {0, SEGMENT_SIZE - 1}}

SpecArgs ==
  {<<NoArg, NoArg>>, <<Numeral(SEGMENT_MAX), NoArg>>,
   <<Numeral(1), Numeral(0)>>, <<Numeral(1), Numeral(1)>>,
   <<Numeral(1), Numeral(2)>>, <<NotANumber, NoArg>>}

Init ==
  \E a \in SpecArgs, e \in {"ok", "seekfail", "nomem"}, cap \in -1..MaxLines :
    \E len \in FileLens(StartOf(a[1], a[2]), MaxSegs) :
      Boot(a[1], a[2], e, len, cap)

(***************************************************************************)
(* main (src/wmx2obj.c:233-271).  The input and output files are taken to  *)
(* open.                                                                   *)
(***************************************************************************)
\* Lines 244-262: the arguments are parsed, or main dies.
ParseArgs ==
  /\ pc = "main"
  /\ LET r == ParseRange(argv3, argv4)
     IN  IF r.ok
         THEN /\ start' = r.start /\ end' = r.end
              /\ pc' = "convert"
              /\ UNCHANGED <<status, errlog>>
         ELSE /\ errlog' = Append(errlog, r.msg)
              /\ status' = EXIT_FAILURE
              /\ pc' = "exit"
              /\ UNCHANGED <<start, end>>
  /\ UNCHANGED <<mainVars, i, j, res, fpos, freads, segVars, blockVars,
                 indexVars, outVars, counters, placed>>

\* Lines 264-270: convert_to_obj has returned res.
MainReturn ==
  /\ pc = "mainret"
  /\ pc' = "exit"
  /\ IF res = 0
     THEN errlog' = Append(errlog, "Conversion failed") /\ status' = EXIT_FAILURE
     ELSE errlog' = errlog /\ status' = EXIT_SUCCESS
  /\ UNCHANGED <<mainVars, driverVars, res, fpos, freads, segVars, blockVars,
                 indexVars, outVars, counters, placed>>

(***************************************************************************)
(* convert_to_obj (src/wmx2obj.c:195-231).                                 *)
(***************************************************************************)
\* Lines 206-227: seek, allocate, initialise the counters and the loop.
EnterConvert ==
  /\ pc = "convert"
  /\ IF env = "seekfail"
     THEN /\ errlog' = Append(errlog, "Seek failed")
          /\ res' = 0 /\ pc' = "mainret"
          /\ UNCHANGED <<driverVars, fpos, indexVars>>
     ELSE IF env = "nomem"
     THEN /\ errlog' = Append(errlog, "Out of memory")
          /\ fpos' = start * SEGMENT_SIZE
          /\ res' = 0 /\ pc' = "mainret"
          /\ UNCHANGED <<driverVars, indexVars>>
     ELSE /\ fpos' = start * SEGMENT_SIZE
          /\ vert_max' = 1 /\ prev_vert_max' = 1
          /\ j' = FirstPos(start, end)
          /\ end' = end + 1
          /\ i' = start
          /\ res' = 1 /\ pc' = "segloop"
          /\ UNCHANGED <<start, errlog>>
  /\ UNCHANGED <<mainVars, status, freads, segVars, blockVars, outVars,
                 counters, placed>>

\* Line 227: the condition of the segment loop, res && i != end.
SegmentLoopRuns == res = 1 /\ i # end

\* Lines 227-230: the loop ends; free and return res.
LeaveConvert ==
  /\ pc = "segloop"
  /\ ~SegmentLoopRuns
  /\ pc' = "mainret"
  /\ UNCHANGED <<mainVars, driverVars, res, status, errlog, fpos, freads,
                 segVars, blockVars, indexVars, outVars, counters, placed>>

\* Line 227: convert_segment has returned res; ++i, ++j.
SegmentReturn ==
  /\ pc = "segret"
  /\ i' = i + 1 /\ j' = j + 1
  /\ pc' = "segloop"
  /\ UNCHANGED <<mainVars, start, end, res, status, errlog, fpos, freads,
                 segVars, blockVars, indexVars, outVars, counters, placed>>

(***************************************************************************)
(* convert_segment (src/wmx2obj.c:168-193).                                *)
(***************************************************************************)
\* fread(buf, SEGMENT_SIZE, 1, in) = 1: a whole segment is left in the file.
WholeSegmentLeft == fpos + SEGMENT_SIZE <= fileLen

\* Lines 179-189, called from line 228 with pos = j: read the segment and
\* set its world offset, or fail on a short read.
ReadSegment ==
  /\ pc = "segloop"
  /\ SegmentLoopRuns
  /\ freads' = freads + 1
  /\ pos' = j
  /\ IF WholeSegmentLeft
     THEN /\ seg' \in Segments
          /\ fpos' = fpos + SEGMENT_SIZE
          /\ segX' = SegmentX(j) /\ segZ' = SegmentZ(j)
          /\ blk' = 0
          /\ res' = 1
          /\ rdmax' = -1
          /\ placed' = Append(placed, [idx |-> i, at |-> fpos, x |-> SegmentX(j), z |-> SegmentZ(j)])
          /\ pc' = "blockloop"
          /\ errlog' = errlog
     ELSE /\ errlog' = errlog \o <<"Read failed", "EOF was reached">>
          /\ fpos' = Max(fpos, fileLen)
          /\ res' = 0
          /\ pc' = "segret"
          /\ UNCHANGED <<seg, segX, segZ, blk, rdmax, placed>>
  /\ UNCHANGED <<mainVars, driverVars, status, blockVars, indexVars, outVars,
                 blocks, hist>>

\* Seeded fault: the block loop does not look at res.
BlockLoopIgnoresRes == blk # BLOCKS_PER_SEGMENT

\* Line 190: the condition of the block loop, res && i != BLOCKS_PER_SEGMENT.
BlockLoopRuns == res = 1 /\ blk # BLOCKS_PER_SEGMENT

\* Lines 190-192: the block loop ends; return res.
LeaveSegment ==
  /\ pc = "blockloop"
  /\ ~BlockLoopRuns
  /\ pc' = "segret"
  /\ UNCHANGED <<mainVars, driverVars, res, status, errlog, fpos, freads,
                 segVars, blockVars, indexVars, outVars, counters, placed>>

\* Line 190: convert_block has returned res; ++i.
BlockReturn ==
  /\ pc = "blockret"
  /\ blk' = blk + 1
  /\ pc' = "blockloop"
  /\ UNCHANGED <<mainVars, driverVars, res, status, errlog, fpos, freads,
                 seg, pos, segX, segZ, blockVars, indexVars, outVars, counters, placed>>

(***************************************************************************)
(* convert_block (src/wmx2obj.c:124-166).                                  *)
(***************************************************************************)
\* The offset table entry of block p, as convert_block reads it.
OffsetLoc(p) == GROUP_ID_SIZE + p * BLOCK_OFFSET_SIZE
EntryBytes(sg, p) == [n \in 1..4 |-> SegByte(sg, OffsetLoc(p) + n - 1)]

\* Lines 136-157, called from line 191 with pos = blk: the offset check, the
\* header, the block's world offset, prev_vert_max.
BlockHeader ==
  /\ pc = "blockloop"
  /\ BlockLoopRuns
  /\ LET offset == BlockOffset(EntryBytes(seg, blk))
     IN  IF OffsetTooLarge(offset)
         THEN /\ errlog' = Append(errlog, "Block offset too large")
              /\ res' = 0
              /\ rdmax' = Max(rdmax, OffsetLoc(blk) + 3)
              /\ pc' = "blockret"
              /\ UNCHANGED <<blockVars, indexVars, hist>>
         ELSE /\ num_polys' = SegByte(seg, offset.val)
              /\ num_verts' = SegByte(seg, offset.val + 1)
              /\ rdmax' = Max(rdmax, offset.val + 1)
              /\ bufp' = offset.val + BLOCK_HEADER_SIZE
              /\ blkX' = BlockX(segX, blk) /\ blkZ' = BlockZ(segZ, blk)
              /\ prev_vert_max' = vert_max
              /\ hist' = [V |-> vert_max, maxIdx |-> 0, polys |-> 0]
              /\ k' = 0
              /\ res' = 1
              /\ pc' = "polys"
              /\ UNCHANGED <<vert_max, errlog>>
  /\ UNCHANGED <<mainVars, driverVars, status, fpos, freads, segVars, outVars,
                 blocks, placed>>

\* Lines 158 and 160: the conditions of the record loops.
PolygonLoopRuns == res = 1 /\ k # num_polys
VertexLoopRuns == res = 1 /\ k # num_verts

\* ferror(out) after the next line: the output has taken all it accepts.
WriteFails == outCap >= 0 /\ fcount + vcount >= outCap

\* Lines 158-159: one triangle record.
ConvertPolygon ==
  /\ pc = "polys"
  /\ PolygonLoopRuns
  /\ \E b \in Read3(seg, bufp) :
       LET r == convert_polygon(prev_vert_max, vert_max, b)
       IN  /\ vert_max' = r.vert_max
           /\ rec' = b
           /\ hist' = [hist EXCEPT !.maxIdx = Max(@, Max(b[1], Max(b[2], b[3]))),
                                   !.polys = @ + 1]
           /\ IF WriteFails
              THEN res' = 0 /\ UNCHANGED <<fcount, lastF>>
              ELSE res' = 1 /\ fcount' = fcount + 1 /\ lastF' = r.line
  /\ rdmax' = Max(rdmax, bufp + VERTICES_PER_POLYGON - 1)
  /\ k' = k + 1
  /\ bufp' = bufp + POLYGON_SIZE
  /\ UNCHANGED <<pc, mainVars, driverVars, status, errlog, fpos, freads,
                 segVars, blkX, blkZ, num_polys, num_verts, prev_vert_max,
                 vcount, lastV, blocks, placed>>

\* Line 160: the triangle loop ends; i = 0.
PolygonsDone ==
  /\ pc = "polys"
  /\ ~PolygonLoopRuns
  /\ k' = 0
  /\ pc' = "verts"
  /\ UNCHANGED <<mainVars, driverVars, res, status, errlog, fpos, freads,
                 segVars, bufp, blkX, blkZ, num_polys, num_verts, indexVars,
                 outVars, counters, placed>>

\* Lines 160-161: one vertex record.
ConvertVertex ==
  /\ pc = "verts"
  /\ VertexLoopRuns
  /\ \E b \in Read6(seg, bufp) :
       /\ rec' = b
       /\ IF WriteFails
          THEN res' = 0 /\ UNCHANGED <<vcount, lastV>>
          ELSE res' = 1 /\ vcount' = vcount + 1
               /\ lastV' = convert_vertex(blkX, blkZ, b)
  /\ rdmax' = Max(rdmax, bufp + 5)
  /\ k' = k + 1
  /\ bufp' = bufp + VERTEX_SIZE
  /\ UNCHANGED <<pc, mainVars, driverVars, status, errlog, fpos, freads,
                 segVars, blkX, blkZ, num_polys, num_verts, indexVars,
                 fcount, lastF, blocks, hist, placed>>

\* Lines 160-165: the vertex loop ends; ++vert_max; return res.
BlockEnd ==
  /\ pc = "verts"
  /\ ~VertexLoopRuns
  /\ vert_max' = vert_max + 1
  /\ blocks' = blocks + res
  /\ pc' = "blockret"
  /\ UNCHANGED <<mainVars, driverVars, res, status, errlog, fpos, freads,
                 segVars, blockVars, prev_vert_max, outVars, rdmax, hist,
                 placed>>

\* A read outside the buffer may fault instead of returning: the process is
\* killed by the signal (status 128 + SIGSEGV).
Crash ==
  /\ \/ pc = "polys" /\ PolygonLoopRuns
        /\ bufp + VERTICES_PER_POLYGON - 1 >= SEGMENT_SIZE
     \/ pc = "verts" /\ VertexLoopRuns
        /\ bufp + 5 >= SEGMENT_SIZE
  /\ rdmax' = Max(rdmax, bufp)
  /\ status' = 139
  /\ pc' = "exit"
  /\ UNCHANGED <<mainVars, driverVars, res, errlog, fpos, freads, segVars,
                 blockVars, indexVars, outVars, blocks, hist, placed>>

Next ==
  \/ ParseArgs
  \/ EnterConvert
  \/ ReadSegment
  \/ BlockHeader
  \/ ConvertPolygon
  \/ PolygonsDone
  \/ ConvertVertex
  \/ BlockEnd
  \/ Crash
  \/ BlockReturn
  \/ LeaveSegment
  \/ SegmentReturn
  \/ LeaveConvert
  \/ MainReturn

Spec == Init /\ [][Next]_vars

(***************************************************************************)
(* The driver over every start segment.  main and convert_to_obj are as    *)
(* above; convert_segment is one step that keeps what the driver sees of   *)
(* it: the read, the world offset and the result of the block loop (the    *)
(* blocks themselves are decoded step by step under Spec).                 *)
(***************************************************************************)
\* Lines 179-192 in one step: res is 1, or 0 when a block failed.
ConvertSegment ==
  /\ pc = "segloop"
  /\ SegmentLoopRuns
  /\ freads' = freads + 1
  /\ pos' = j
  /\ IF WholeSegmentLeft
     THEN /\ fpos' = fpos + SEGMENT_SIZE
          /\ segX' = SegmentX(j) /\ segZ' = SegmentZ(j)
          /\ placed' = Append(placed, [idx |-> i, at |-> fpos, x |-> SegmentX(j), z |-> SegmentZ(j)])
          /\ res' \in {0, 1}
          /\ blocks' = IF res' = 1 THEN blocks + BLOCKS_PER_SEGMENT ELSE blocks
          /\ errlog' = errlog
     ELSE /\ errlog' = errlog \o <<"Read failed", "EOF was reached">>
          /\ fpos' = Max(fpos, fileLen)
          /\ res' = 0
          /\ UNCHANGED <<segX, segZ, placed, blocks>>
  /\ pc' = "segret"
  /\ UNCHANGED <<mainVars, driverVars, status, seg, blk, blockVars, indexVars,
                 outVars, rdmax, hist>>

\* Argument strings that are not plain segment numbers: "abc", "-1",
\* 2^32 + n, -(2^32 - (n + 1)) and 2^64 + n.
OddArgs(n) ==
  {NotANumber, MinusNumeral(1), Numeral2p32Plus(n), MinusNumeral2p32Minus(n + 1),
   Numeral2p64Plus(n)}

\* The command lines of the driver specification: every start segment with
\* no end segment, with an end segment from one before it to MaxSpan after
\* it, and with an odd one; and odd start segments.
DriverArgs ==
  {<<NoArg, NoArg>>}
  \cup UNION {{<<Numeral(n), a4>> :
                 a4 \in {NoArg} \cup OddArgs(n)
                        \cup {Numeral(m) : m \in Max(n - 1, 0)..n + MaxSpan}} :
              n \in SEGMENT_MIN..SEGMENT_MAX + 1}
  \cup {<<a3, a4>> : a3 \in OddArgs(3), a4 \in {NoArg, Numeral(3), Numeral(5)}}

InitDriver ==
  \E a \in DriverArgs :
    \E len \in {(StartOf(a[1], a[2]) + m) * SEGMENT_SIZE : m \in 0..MaxSpan + 1} :
      Boot(a[1], a[2], "ok", len, -1)

NextDriver ==
  \/ ParseArgs
  \/ EnterConvert
  \/ ConvertSegment
  \/ SegmentReturn
  \/ LeaveConvert
  \/ MainReturn

SpecDriver == InitDriver /\ [][NextDriver]_vars

(***************************************************************************)
(* convert_vertex on its own, for every raw 16-bit value on every axis: a  *)
(* vertex record is converted at a block's world offset.                   *)
(***************************************************************************)
\* World offsets of blocks: the first block of segment position 0, and
\* blocks of the last column and of a later row.
VertexOrigins ==
  {<<BlockX(SegmentX(p), b), BlockZ(SegmentZ(p), b)>> :
     p \in {0, SEGMENTS_PER_ROW - 1, SEGMENT_MAX}, b \in {0, 7}}

\* A vertex record whose x is v, whose y is v + 32768 and whose z is
\* 65535 - v (mod 2^16), so that each axis takes every 16-bit value.
VertexRecord(b0, b1) ==
  <<b0, b1, b0, (b1 + 128) % 256, 255 - b0, 255 - b1>>

InitVertex ==
  \E o \in VertexOrigins, b0 \in Byte, b1 \in Byte :
    /\ pc = "vertex"
    /\ argv3 = NoArg /\ argv4 = NoArg /\ env = "ok" /\ fileLen = 0 /\ outCap = -1
    /\ blkX = o[1] /\ blkZ = o[2] /\ rec = VertexRecord(b0, b1)
    /\ Fresh

VertexStep ==
  /\ pc = "vertex"
  /\ lastV' = convert_vertex(blkX, blkZ, rec)
  /\ vcount' = vcount + 1
  /\ pc' = "vertexdone"
  /\ UNCHANGED <<mainVars, driverVars, res, status, errlog, fpos, freads,
                 segVars, blockVars, indexVars, fcount, lastF, rec, counters,
                 placed>>

SpecVertex == InitVertex /\ [][VertexStep]_vars

(***************************************************************************)
(* Properties.                                                             *)
(***************************************************************************)
Logged(msg) == \E n \in DOMAIN errlog : errlog[n] = msg

\* convert_block has just returned 0 from its offset check.
OffsetRejected ==
  Len(errlog) > 0 /\ errlog[Len(errlog)] = "Block offset too large"

\* The offset of the block convert_block was last called on.
CurrentOffset == BlockOffset(EntryBytes(seg, blk)).val

\* Largest local index byte among the first three bytes of the n triangle
\* records that start at buffer index a.
RECURSIVE BufMaxIdx(_, _, _)
BufMaxIdx(sg, a, n) ==
  IF n = 0 THEN 0
  ELSE Max(Max(SegByte(sg, a), Max(SegByte(sg, a + 1), SegByte(sg, a + 2))),
           BufMaxIdx(sg, a + POLYGON_SIZE, n - 1))

\* The n triangle records of the block at offset off lie inside the buffer.
TrianglesInside(off, n) ==
  off + BLOCK_HEADER_SIZE + n * POLYGON_SIZE <= SEGMENT_SIZE

\* C1: every byte convert_block and the record converters read, for a block
\* whose offset passed the check, lies inside the SEGMENT_SIZE-byte buffer.
C1_ReadsInsideBuffer == rdmax < SEGMENT_SIZE

\* C2: every index written on an f line is the 1-based position, among all
\* v lines of the output, of the vertex record it names: an index of local
\* byte r is 1 + (v lines of all earlier blocks) + r.
C2_GlobalIndices ==
  (pc = "polys" /\ k > 0 /\ res = 1) =>
    /\ prev_vert_max = vcount + 1
    /\ \A n \in 1..VERTICES_PER_POLYGON : lastF[n] = vcount + 1 + rec[n]

\* C3: during a conversion prev_vert_max <= vert_max, and neither counter
\* ever decreases from one step to the next.
InConversion ==
  pc \in {"segloop", "blockloop", "polys", "verts", "blockret", "segret"}
C3_CountersMonotonic ==
  /\ [](InConversion => prev_vert_max <= vert_max)
  /\ [][InConversion => vert_max' >= vert_max /\ prev_vert_max' >= prev_vert_max]_vars
C3_Witness ==
  pc = "polys" /\ blk > 2 /\ k > 0 /\ vert_max > prev_vert_max /\ prev_vert_max > 1

\* C4: a short read or a rejected block offset is fatal: from then on no f
\* or v line is written and no segment is read, the process can only run on
\* to its exit, and it exits with a non-zero status; the success status is
\* reached only when every segment of the range was read and all 16 blocks
\* of each were decoded.
Failed == Logged("Read failed") \/ Logged("Block offset too large")
C4_FailureIsFatal ==
  /\ [][Failed => /\ fcount' = fcount /\ vcount' = vcount
                  /\ freads' = freads /\ fpos' = fpos /\ blocks' = blocks]_vars
  /\ [](Failed /\ pc # "exit" => ENABLED Next)
  /\ [](Failed /\ pc = "exit" => status = EXIT_FAILURE)
  /\ [](status = EXIT_SUCCESS =>
          /\ ~Failed
          /\ freads = end - start
          /\ Len(placed) = freads
          /\ blocks = BLOCKS_PER_SEGMENT * freads)
C4_Witness ==
  /\ pc = "exit" /\ status = EXIT_FAILURE
  /\ Logged("Block offset too large")
  /\ fcount > 0 /\ vcount > 0 /\ blk = 7 /\ i < end

\* C9 (original): on exit from a block that passed the offset check,
\* vert_max is max(V, V + largest local index byte of the block's num_polys
\* triangle records) + 1, V being vert_max on entry, and prev_vert_max is V.
C9_AllRecordsCount ==
  (pc = "blockret" /\ ~OffsetRejected /\ TrianglesInside(CurrentOffset, num_polys)) =>
    /\ prev_vert_max = hist.V
    /\ vert_max =
         Max(hist.V,
             hist.V + BufMaxIdx(seg, CurrentOffset + BLOCK_HEADER_SIZE, num_polys)) + 1

\* C9 (amended): inside a block that passed the offset check prev_vert_max
\* is V and vert_max is max(V, V + largest local index byte read so far);
\* on exit vert_max is that maximum over the triangle records that were
\* converted, plus 1; these are all num_polys records of the block unless a
\* write error ended the loop early.
C9_ConvertedRecordsCount ==
  /\ pc \in {"polys", "verts"} =>
       /\ prev_vert_max = hist.V
       /\ vert_max = Max(hist.V, hist.V + hist.maxIdx)
  /\ (pc = "blockret" /\ ~OffsetRejected) =>
       /\ prev_vert_max = hist.V
       /\ vert_max = Max(hist.V, hist.V + hist.maxIdx) + 1
       /\ hist.polys <= num_polys
       /\ res = 1 => hist.polys = num_polys
       /\ TrianglesInside(CurrentOffset, hist.polys) =>
            hist.maxIdx =
              BufMaxIdx(seg, CurrentOffset + BLOCK_HEADER_SIZE, hist.polys)
C9_Witness ==
  /\ pc = "blockret" /\ ~OffsetRejected /\ res = 1
  /\ blk > 0 /\ num_polys = 2 /\ hist.maxIdx = 5 /\ vert_max = hist.V + 6

\* The original end segment: convert_to_obj has incremented end.
LastSegment == end - 1

\* C5 (original): the segment read from file position i * SEGMENT_SIZE is
\* given the world offset (i % 32 * 8192, i / 32 * 8192).
C5_OffsetOfIndex ==
  \A n \in DOMAIN placed :
    /\ placed[n].at = placed[n].idx * SEGMENT_SIZE
    /\ placed[n].x = (placed[n].idx % SEGMENTS_PER_ROW) * SEGMENT_BOUNDS
    /\ placed[n].z = (placed[n].idx \div SEGMENTS_PER_ROW) * SEGMENT_BOUNDS

\* C5 (amended): the segment read from file position i * SEGMENT_SIZE is
\* given the world offset (i % 32 * 8192, (i / 32 - start / 32) * 8192) when
\* start and end lie on different grid rows, and ((i - start) * 8192, 0)
\* when they lie on the same row.
C5_OffsetFromStart ==
  \A n \in DOMAIN placed :
    LET idx == placed[n].idx
    IN  /\ placed[n].at = idx * SEGMENT_SIZE
        /\ idx = start + n - 1
        /\ IF start \div SEGMENTS_PER_ROW # LastSegment \div SEGMENTS_PER_ROW
           THEN /\ placed[n].x = (idx % SEGMENTS_PER_ROW) * SEGMENT_BOUNDS
                /\ placed[n].z =
                     ((idx \div SEGMENTS_PER_ROW) - (start \div SEGMENTS_PER_ROW))
                       * SEGMENT_BOUNDS
           ELSE /\ placed[n].x = (idx - start) * SEGMENT_BOUNDS
                /\ placed[n].z = 0
C5_Witness ==
  /\ Len(placed) = 3 /\ start > SEGMENTS_PER_ROW
  /\ placed[2].idx \div SEGMENTS_PER_ROW # placed[3].idx \div SEGMENTS_PER_ROW
  /\ placed[3].z = SEGMENT_BOUNDS /\ placed[3].x = 0

\* Mathematical order of two argument strings that are numbers.
RECURSIVE MagLess(_, _, _)
MagLess(a, b, l) ==
  IF l = 0 THEN FALSE
  ELSE IF a[l] # b[l] THEN a[l] < b[l]
  ELSE MagLess(a, b, l - 1)
Negative(a) == a.neg /\ \E l \in DOMAIN a.mag : a.mag[l] # 0
ArgLess(a, b) ==
  IF Negative(a)
  THEN IF Negative(b) THEN MagLess(b.mag, a.mag, 5) ELSE TRUE
  ELSE IF Negative(b) THEN FALSE ELSE MagLess(a.mag, b.mag, 5)

\* The command line states an end segment below its start segment (the
\* start segment is 0 when none is given).
EndBelowStart ==
  /\ argv4.given /\ argv4.digits
  /\ argv3.given => argv3.digits
  /\ ArgLess(argv4, IF argv3.given THEN argv3 ELSE Numeral(SEGMENT_MIN))

\* C6: a command line with end-segment < start-segment is rejected as an
\* argument error before any segment is read; a run that succeeds has read
\* exactly end - start + 1 segments, consecutively from byte
\* start * SEGMENT_SIZE, and decoded 16 blocks of each.
C6_RangeDecidesReads ==
  /\ (EndBelowStart /\ pc # "main") =>
       /\ pc = "exit" /\ status = EXIT_FAILURE
       /\ errlog = <<"Bad end segment">>
       /\ freads = 0
  /\ (pc = "exit" /\ status = EXIT_SUCCESS) =>
       /\ freads = LastSegment - start + 1
       /\ Len(placed) = freads
       /\ \A n \in DOMAIN placed : placed[n].at = (start + n - 1) * SEGMENT_SIZE
       /\ blocks = BLOCKS_PER_SEGMENT * freads

\* C10: the world offsets given to any two segments of a run differ by the
\* segments' grid displacement, ((b % 32 - a % 32) * 8192,
\* (b / 32 - a / 32) * 8192), whether or not start and end share a row.
C10_DisplacementKept ==
  \A m \in DOMAIN placed : \A n \in DOMAIN placed :
    LET a == placed[m].idx
        b == placed[n].idx
    IN  /\ placed[n].x - placed[m].x =
             ((b % SEGMENTS_PER_ROW) - (a % SEGMENTS_PER_ROW)) * SEGMENT_BOUNDS
        /\ placed[n].z - placed[m].z =
             ((b \div SEGMENTS_PER_ROW) - (a \div SEGMENTS_PER_ROW))
               * SEGMENT_BOUNDS
C10_Witness ==
  /\ Len(placed) = 4
  /\ placed[1].idx \div SEGMENTS_PER_ROW # placed[4].idx \div SEGMENTS_PER_ROW
  /\ placed[4].x < placed[1].x /\ placed[4].z > placed[1].z

\* The raw 16-bit value of axis a (1: x, 2: y, 3: z) of the vertex record
\* and the world offset convert_vertex adds on that axis.
RawOf(a) == rec[2 * a - 1] + 256 * rec[2 * a]
OriginOf(a) == IF a = 1 THEN blkX ELSE IF a = 2 THEN 0 ELSE blkZ
Signed16(v) == IF v >= 32768 THEN v - 65536 ELSE v

\* C7: limit_within_bounds of a raw value v in 0..65535 assembled from two
\* bytes is v when v <= 2048 and 65536 - v when v > 2048; 65535 gives 1.
C7_FoldIntoBounds ==
  pc = "vertexdone" =>
    \A a \in 1..3 :
      /\ lastV[a] - OriginOf(a) =
           IF RawOf(a) <= 2048 THEN RawOf(a) ELSE 65536 - RawOf(a)
      /\ RawOf(a) = 65535 => lastV[a] - OriginOf(a) = 1
C7_Witness ==
  /\ pc = "vertexdone" /\ RawOf(1) = 65535 /\ RawOf(3) = 0
  /\ lastV = <<blkX + 1, 32769, blkZ>>

\* C8 (original): a raw value v > 2048 is a negative offset: the coordinate
\* written is the world offset plus the signed 16-bit reading of v.
C8_SignedDisplacement ==
  pc = "vertexdone" =>
    \A a \in 1..3 :
      RawOf(a) > BLOCK_BOUNDS => lastV[a] = OriginOf(a) + Signed16(RawOf(a))

\* C8 (amended): a raw value v > 2048 adds the magnitude 65536 - v to the
\* world offset (for v >= 32768 the absolute value of the signed 16-bit
\* reading of v), so the coordinate written is never below the world offset.
C8_MagnitudeAdded ==
  pc = "vertexdone" =>
    \A a \in 1..3 :
      RawOf(a) > BLOCK_BOUNDS =>
        /\ lastV[a] = OriginOf(a) + (65536 - RawOf(a))
        /\ lastV[a] > OriginOf(a)
        /\ RawOf(a) >= 32768 => lastV[a] = OriginOf(a) - Signed16(RawOf(a))
C8_Witness ==
  /\ pc = "vertexdone" /\ RawOf(3) = 65534 /\ blkZ > blkX /\ blkX > 0
  /\ lastV[3] = blkZ + 2

====
